---- MODULE Spec2Model ----
(***************************************************************************)
(* Model of multi_agent.py: a pipeline that validates a user prompt,       *)
(* generates SQL with a text-generation agent, extracts the statement from *)
(* the free-form reply, executes it and summarises the result.             *)
(*                                                                         *)
(* Text is modelled as a sequence of tokens, each token standing for the   *)
(* literal substring of the same spelling (the fence token for the three   *)
(* backquotes of a code fence), and the text for their concatenation.  The *)
(* token alphabets are chosen so that every string operation of the source *)
(* (in, split, strip, upper, startswith, join) gives the same answer on    *)
(* the token sequence as on the characters: the fence is the only token    *)
(* with backquotes, whitespace is only ever a whole token, and no keyword, *)
(* marker or tag straddles two tokens.                                     *)
(*                                                                         *)
(* Spec is one run of the main block.  SpecExtract and SpecValidate apply  *)
(* the extractor and the validator to every reply within the bounds.       *)
(***************************************************************************)
EXTENDS Integers, Sequences, FiniteSets

VARIABLES pc, user_prompt, valid, sql_query, fallback, results, summary,
          out, trace, session_closed,
          response, sql, resql, reply, verdict

vars == <<pc, user_prompt, valid, sql_query, fallback, results, summary,
          out, trace, session_closed, response, sql, resql, reply, verdict>>

mainVars == <<user_prompt, valid, sql_query, fallback, results, summary,
              out, trace, session_closed>>

(* ------------------------------ bounds -------------------------------- *)

\* longest raw generation reply given to the extractor on its own
MaxLen == 5
\* longest generation reply inside a pipeline run
MaxRespLen == 3
\* longest validation reply
MaxValLen == 3
\* most rows a query returns
MaxRows == 2

(* ------------------------------ tokens -------------------------------- *)

\* the code fence, three backquotes (a TLA+ string cannot hold a backquote)
Fence == "<fence>"
FenceSql == <<Fence, "sql">>
Whitespace == {" ", "\n"}
Keywords == {"SELECT", "WITH", "INSERT", "UPDATE", "DELETE", "CREATE"}
Markers == {"Explanation", "This query"}

Tokens == {Fence, "sql", "SQL", "select", " ", "\n", "foo", "Explanation"}
ValTokens == {"VALID", "valid", "IN", " ", "\n"}

SeqsUpTo(S, n) == UNION {[1..k -> S] : k \in 0..n}

RawTexts == SeqsUpTo(Tokens, MaxLen)
GenReplies == SeqsUpTo(Tokens, MaxRespLen)
ValReplies == SeqsUpTo(ValTokens, MaxValLen)
Prompts == {"flights from JFK", "Boeing planes"}
Errors == {"timeout", "no such column"}
Rows == {"row1"}
SummReplies == {<<"summary">>, <<" ", "summary", "\n">>, <<>>}

(* optional values: None is Absent, a value v is Present(v) *)
Absent == <<>>
Present(v) == <<v>>
IsPresent(o) == o # <<>>
Get(o) == o[1]
\* Python truthiness of an optional string: None and "" are falsy
Truthy(o) == IsPresent(o) /\ Get(o) # <<>>

(* --------------------------- string helpers --------------------------- *)

UpperTok(t) ==
  CASE t = "sql" -> "SQL"
    [] t = "select" -> "SELECT"
    [] t = "foo" -> "FOO"
    [] t = "Explanation" -> "EXPLANATION"
    [] t = "valid" -> "VALID"
    [] OTHER -> t

Upper(s) == [i \in 1..Len(s) |-> UpperTok(s[i])]

RECURSIVE LStrip(_)
LStrip(s) ==
  IF s = <<>> THEN s
  ELSE IF Head(s) \in Whitespace THEN LStrip(Tail(s)) ELSE s

RECURSIVE RStrip(_)
RStrip(s) ==
  IF s = <<>> THEN s
  ELSE IF s[Len(s)] \in Whitespace THEN RStrip(SubSeq(s, 1, Len(s) - 1)) ELSE s

Strip(s) == RStrip(LStrip(s))

\* positions at which sep occurs in s
Occurrences(s, sep) ==
  {i \in 1..(Len(s) - Len(sep) + 1) : SubSeq(s, i, i + Len(sep) - 1) = sep}

Contains(s, sep) == Occurrences(s, sep) # {}

Min(S) == CHOOSE m \in S : \A n \in S : m <= n

\* str.split(sep): the pieces between successive non-overlapping occurrences
RECURSIVE Split(_, _)
Split(s, sep) ==
  IF ~Contains(s, sep) THEN <<s>>
  ELSE LET i == Min(Occurrences(s, sep))
       IN <<SubSeq(s, 1, i - 1)>> \o Split(SubSeq(s, i + Len(sep), Len(s)), sep)

\* str.startswith(tuple of options), the options being single tokens
StartsWithAny(s, opts) == s # <<>> /\ Head(s) \in opts

\* the lines joined with a space in place of the newline
RECURSIVE Join_space(_)
Join_space(lines) ==
  IF lines = <<>> THEN <<>>
  ELSE IF Len(lines) = 1 THEN lines[1]
  ELSE lines[1] \o <<" ">> \o Join_space(Tail(lines))

\* str.join of the lines with a newline between them
RECURSIVE Join(_)
Join(lines) ==
  IF lines = <<>> THEN <<>>
  ELSE IF Len(lines) = 1 THEN lines[1]
  ELSE lines[1] \o <<"\n">> \o Join(Tail(lines))

(* ------------------------------ extractor ----------------------------- *)

\* the loop of lines 108-116, from line i on
RECURSIVE ScanLines(_, _, _, _)
ScanLines(lines, i, sql_lines, capturing) ==
  IF i > Len(lines) THEN sql_lines
  ELSE LET line == Strip(lines[i])
       IN IF ~capturing /\ StartsWithAny(Upper(line), Keywords)
          THEN ScanLines(lines, i + 1, Append(sql_lines, line), TRUE)
          ELSE IF capturing
               THEN IF line = <<>> \/ StartsWithAny(line, Markers)
                    THEN sql_lines
                    ELSE ScanLines(lines, i + 1, Append(sql_lines, line), TRUE)
               ELSE ScanLines(lines, i + 1, sql_lines, capturing)

\* lines 106-117
LineScan(resp) ==
  LET sql_lines == ScanLines(Split(resp, <<"\n">>), 1, <<>>, FALSE)
  IN IF sql_lines # <<>> THEN Present(Join(sql_lines)) ELSE Absent

\* line 100 without the strip()
SqlBlock_unstripped(resp) == Split(Split(resp, FenceSql)[2], <<Fence>>)[1]

\* line 100
SqlBlock(resp) == Strip(Split(Split(resp, FenceSql)[2], <<Fence>>)[1])

\* line 102
GenericBlock(resp) == Strip(Split(resp, <<Fence>>)[2])

\* lines 97-120 with the keyword test of line 103 left out
extract_unchecked_block(resp) ==
  IF Contains(resp, FenceSql) THEN Present(SqlBlock(resp))
  ELSE IF Contains(resp, <<Fence>>)
       THEN Present(GenericBlock(resp))
       ELSE LineScan(resp)

\* lines 97-120; on text no operation of the body raises, so the handler of
\* lines 118-120 is never entered
extract_sql_from_response(resp) ==
  IF Contains(resp, FenceSql) THEN Present(SqlBlock(resp))
  ELSE IF Contains(resp, <<Fence>>)
          /\ StartsWithAny(Upper(GenericBlock(resp)), Keywords)
       THEN Present(GenericBlock(resp))
       ELSE LineScan(resp)

(* ------------------------------- stages ------------------------------- *)

\* lines 94-95 without the strip()
validate_prompt_unstripped(content) == Upper(content) = <<"VALID">>

\* lines 94-95, content being the text of the validation agent's reply
validate_prompt(content) == Upper(Strip(content)) = <<"VALID">>

\* what an external call does: it returns text (or rows), or it raises
Returns(v) == [ok |-> TRUE, val |-> v]
Raises(e) == [ok |-> FALSE, val |-> <<e>>]

\* lines 122-129 with the fallback stripped instead of returned as received
generate_sql_stripped(g) ==
  IF g.ok
  THEN LET extracted == extract_sql_from_response(g.val)
       IN <<extracted, IF ~Truthy(extracted) THEN Present(Strip(g.val)) ELSE Absent>>
  ELSE <<Absent, Present(<<"SQL generation failed: ">> \o g.val)>>

\* lines 122-129: the pair (sql, fallback) returned for the outcome g of the
\* call of the query agent
generate_sql(g) ==
  IF g.ok
  THEN LET extracted == extract_sql_from_response(g.val)
       IN <<extracted, IF ~Truthy(extracted) THEN Present(g.val) ELSE Absent>>
  ELSE <<Absent, Present(<<"SQL generation failed: ">> \o g.val)>>

NoRowsMarker == [kind |-> "text", val |-> <<"Query ran but returned no rows.">>]

\* lines 131-136, d being the outcome of session.execute(...).fetchall()
execute_query(d) ==
  IF d.ok
  THEN IF d.val # <<>> THEN [kind |-> "rows", val |-> d.val] ELSE NoRowsMarker
  ELSE [kind |-> "text", val |-> <<"SQL execution error: ">> \o d.val]

\* str(results): a list of rows prints in brackets, a string as itself
Str(r) == IF r.kind = "rows" THEN <<"[">> \o r.val \o <<"]">> ELSE r.val

\* lines 142-146
summary_prompt(prompt, res) ==
  <<"User question: ", prompt, "Query result: ">> \o Str(res)
    \o <<"Based on the schema provided earlier, summarize this result in a helpful way.">>

\* lines 138-150, s being the outcome of the call of the summarizer agent
summarize_result(s) ==
  IF s.ok THEN Strip(s.val) ELSE <<"Summarization error: ">> \o s.val

GenOutcomes == {Returns(r) : r \in GenReplies} \cup {Raises(e) : e \in Errors}
DbOutcomes == {Returns(r) : r \in SeqsUpTo(Rows, MaxRows)} \cup {Raises(e) : e \in Errors}
SummOutcomes == {Returns(r) : r \in SummReplies} \cup {Raises(e) : e \in Errors}

Printed(label, body) == [label |-> label, body |-> body]

(* ------------------------------ pipeline ------------------------------ *)

Init ==
  /\ pc = "START"
  /\ user_prompt = ""
  /\ valid = FALSE
  /\ sql_query = Absent
  /\ fallback = Absent
  /\ results = NoRowsMarker
  /\ summary = <<>>
  /\ out = <<>>
  /\ trace = <<>>
  /\ session_closed = FALSE
  /\ response = <<>>
  /\ sql = Absent
  /\ resql = Absent
  /\ reply = <<>>
  /\ verdict = FALSE

\* line 154
Input ==
  /\ pc = "START"
  /\ \E p \in Prompts : user_prompt' = p
  /\ pc' = "VALIDATING"
  /\ UNCHANGED <<valid, sql_query, fallback, results, summary, out, trace,
                 session_closed, response, sql, resql, reply, verdict>>

\* lines 156 and 93: the call of the validation agent raises; validate_prompt
\* has no handler and neither has the main block, so the exception ends the
\* process before line 170
ValidateRaises ==
  /\ pc = "VALIDATING"
  /\ \E e \in Errors :
       trace' = Append(trace, [stage |-> "validate", arg |-> user_prompt])
  /\ pc' = "CRASHED"
  /\ UNCHANGED <<user_prompt, valid, sql_query, fallback, results, summary,
                 out, session_closed, response, sql, resql, reply, verdict>>

\* lines 156-158 with the else of line 158 taken whatever the verdict
Validate_fallthrough ==
  /\ pc = "VALIDATING"
  /\ \E content \in ValReplies :
       /\ trace' = Append(trace, [stage |-> "validate", arg |-> user_prompt])
       /\ valid' = validate_prompt(content)
  /\ pc' = "GENERATING"
  /\ out' = IF valid' THEN out
            ELSE Append(out, Printed("Your prompt is not related to the flight booking system.", <<>>))
  /\ UNCHANGED <<user_prompt, sql_query, fallback, results, summary,
                 session_closed, response, sql, resql, reply, verdict>>

\* lines 156-158 with 92-95
Validate ==
  /\ pc = "VALIDATING"
  /\ \E content \in ValReplies :
       /\ trace' = Append(trace, [stage |-> "validate", arg |-> user_prompt])
       /\ valid' = validate_prompt(content)
  /\ IF valid'
     THEN pc' = "GENERATING" /\ out' = out
     ELSE /\ pc' = "REJECTED"
          /\ out' = Append(out, Printed("Your prompt is not related to the flight booking system.", <<>>))
  /\ UNCHANGED <<user_prompt, sql_query, fallback, results, summary,
                 session_closed, response, sql, resql, reply, verdict>>

\* lines 159-161 and 166-168 with 122-129
Generate ==
  /\ pc = "GENERATING"
  /\ \E g \in GenOutcomes :
       /\ trace' = trace
            \o <<[stage |-> "generate", arg |-> user_prompt, got |-> g]>>
            \o (IF g.ok THEN <<[stage |-> "extract", arg |-> g.val,
                                got |-> extract_sql_from_response(g.val)]>>
                ELSE <<>>)
       /\ sql_query' = generate_sql(g)[1]
       /\ fallback' = generate_sql(g)[2]
  /\ IF Truthy(sql_query')
     THEN /\ pc' = "EXECUTING"
          /\ out' = Append(out, Printed("Generated SQL:", Get(sql_query')))
     ELSE /\ pc' = "EXTRACT_FAILED"
          /\ out' = out
               \o <<Printed("Could not extract SQL. Here is the agent's response:", <<>>),
                    Printed("", IF Truthy(fallback') THEN Get(fallback')
                                ELSE <<"No response.">>)>>
  /\ UNCHANGED <<user_prompt, valid, results, summary, session_closed,
                 response, sql, resql, reply, verdict>>

\* lines 162-163 with an execution error ending the run unsummarised
Execute_stop_on_error ==
  /\ pc = "EXECUTING"
  /\ \E d \in DbOutcomes :
       /\ trace' = Append(trace, [stage |-> "execute", arg |-> Get(sql_query),
                                  got |-> d])
       /\ results' = execute_query(d)
       /\ pc' = IF d.ok THEN "SUMMARIZING" ELSE "DONE"
  /\ out' = Append(out, Printed("Query Results:", Str(results')))
  /\ UNCHANGED <<user_prompt, valid, sql_query, fallback, summary,
                 session_closed, response, sql, resql, reply, verdict>>

\* lines 162-163 with 131-136
Execute ==
  /\ pc = "EXECUTING"
  /\ \E d \in DbOutcomes :
       /\ trace' = Append(trace, [stage |-> "execute", arg |-> Get(sql_query),
                                  got |-> d])
       /\ results' = execute_query(d)
  /\ out' = Append(out, Printed("Query Results:", Str(results')))
  /\ pc' = "SUMMARIZING"
  /\ UNCHANGED <<user_prompt, valid, sql_query, fallback, summary,
                 session_closed, response, sql, resql, reply, verdict>>

\* lines 164-165 with 138-150
Summarize ==
  /\ pc = "SUMMARIZING"
  /\ \E s \in SummOutcomes :
       /\ trace' = Append(trace, [stage |-> "summarize", arg |-> results,
                                  sent |-> summary_prompt(user_prompt, results),
                                  got |-> s])
       /\ summary' = summarize_result(s)
  /\ out' = Append(out, Printed("Summary:", summary'))
  /\ pc' = "DONE"
  /\ UNCHANGED <<user_prompt, valid, sql_query, fallback, results,
                 session_closed, response, sql, resql, reply, verdict>>

\* line 170, reached from each branch of the main block
Close ==
  /\ pc \in {"REJECTED", "EXTRACT_FAILED", "DONE"}
  /\ ~session_closed
  /\ session_closed' = TRUE
  /\ UNCHANGED <<pc, user_prompt, valid, sql_query, fallback, results, summary,
                 out, trace, response, sql, resql, reply, verdict>>

Next ==
  \/ Input
  \/ ValidateRaises
  \/ Validate
  \/ Generate
  \/ Execute
  \/ Summarize
  \/ Close

Spec == Init /\ [][Next]_vars

(* ----------------------- the extractor on its own ---------------------- *)

\* a raw reply of the query agent, before line 126
InitExtract ==
  /\ pc = "extract"
  /\ response \in RawTexts
  /\ sql = Absent
  /\ resql = Absent
  /\ user_prompt = "" /\ valid = FALSE /\ sql_query = Absent
  /\ fallback = Absent /\ results = NoRowsMarker /\ summary = <<>>
  /\ out = <<>> /\ trace = <<>> /\ session_closed = FALSE
  /\ reply = <<>> /\ verdict = FALSE

\* line 126, and the extractor run once more on the statement it returned
Extract ==
  /\ pc = "extract"
  /\ sql' = extract_sql_from_response(response)
  /\ resql' = IF IsPresent(sql') THEN extract_sql_from_response(Get(sql'))
              ELSE Absent
  /\ pc' = "extracted"
  /\ UNCHANGED <<mainVars, response, reply, verdict>>

NextExtract == Extract

SpecExtract == InitExtract /\ [][NextExtract]_vars

(* ----------------------- the validator on its own ---------------------- *)

\* a reply of the validation agent, after line 93
InitValidate ==
  /\ pc = "validate"
  /\ reply \in ValReplies
  /\ verdict = FALSE
  /\ response = <<>> /\ sql = Absent /\ resql = Absent
  /\ user_prompt = "" /\ valid = FALSE /\ sql_query = Absent
  /\ fallback = Absent /\ results = NoRowsMarker /\ summary = <<>>
  /\ out = <<>> /\ trace = <<>> /\ session_closed = FALSE

\* lines 94-95
ValidateReply ==
  /\ pc = "validate"
  /\ verdict' = validate_prompt(reply)
  /\ pc' = "validated"
  /\ UNCHANGED <<mainVars, response, sql, resql, reply>>

NextValidate == ValidateReply

SpecValidate == InitValidate /\ [][NextValidate]_vars

(* ------------------------------ properties ---------------------------- *)

Ran(st) == \E i \in 1..Len(trace) : trace[i].stage = st
TimesRan(st) == Cardinality({i \in 1..Len(trace) : trace[i].stage = st})
EntryOf(st) == trace[CHOOSE i \in 1..Len(trace) : trace[i].stage = st]
Halted == pc \in {"REJECTED", "EXTRACT_FAILED", "DONE"}
\* the process has ended: it ran past line 170 or an exception ended it
ProcessEnded == pc = "CRASHED" \/ (Halted /\ session_closed)
Notice == Printed("Your prompt is not related to the flight booking system.", <<>>)
LastPrinted == out[Len(out)].body

Max(S) == CHOOSE m \in S : \A n \in S : n <= m
FencePos(s) == {i \in 1..Len(s) : s[i] = Fence}
\* the fence at position i is directly followed by one of the tags
TagAt(s, i, tags) == i < Len(s) /\ s[i + 1] \in tags
SqlTagPos(s, tags) == {i \in FencePos(s) : TagAt(s, i, tags)}
\* position of the first fence after position i, or one past the end
NextFenceAfter(s, i) ==
  IF \E j \in FencePos(s) : j > i THEN Min({j \in FencePos(s) : j > i})
  ELSE Len(s) + 1
\* s without its leading and trailing whitespace
Trimmed(s) ==
  LET solid == {i \in 1..Len(s) : s[i] \notin {" ", "\n"}}
  IN IF solid = {} THEN <<>> ELSE SubSeq(s, Min(solid), Max(solid))
BeginsWithKeyword(s) == s # <<>> /\ UpperTok(s[1]) \in Keywords
FirstFence(s) == Min(FencePos(s))
\* the trimmed text between the first fence and the one after it
FirstBlock(s) == Trimmed(SubSeq(s, FirstFence(s) + 1, NextFenceAfter(s, FirstFence(s)) - 1))
FirstBlockGeneric(s) == FencePos(s) # {} /\ ~TagAt(s, FirstFence(s), {"sql", "SQL"})

\* C1: every run that ends has executed session.close(), whichever state it
\* halted in and whichever external call failed.
C1_ReleasedOnEveryExit == ProcessEnded => session_closed

\* C2: no failure of an external call leaves a stage: a run that ends has
\* ended in one of REJECTED, EXTRACT_FAILED or DONE.
C2_EndsInTerminalState == ProcessEnded => Halted

\* C3: once the validation verdict is false the run is in REJECTED, has
\* printed the irrelevance notice and nothing else, and has made no
\* generation call, extraction, execution or summarization.
C3_RejectedRunsNothing ==
  (Ran("validate") /\ pc # "CRASHED" /\ ~valid) =>
    /\ pc = "REJECTED"
    /\ out = <<Notice>>
    /\ \A st \in {"generate", "extract", "execute", "summarize"} : ~Ran(st)

C3_Witness == pc = "REJECTED" /\ session_closed /\ ~valid /\ out = <<Notice>>

\* C4: once execute has run the run is about to summarize or is DONE; in DONE
\* execute and summarize have each run exactly once, summarize right after
\* execute and on the outcome execute returned (rows, the zero-rows marker or
\* the error string), and the SQL, the raw result and the summary were printed.
C4_SummarizeFollowsExecute ==
  /\ Ran("execute") => pc \in {"SUMMARIZING", "DONE"}
  /\ pc = "SUMMARIZING" =>
       /\ TimesRan("execute") = 1 /\ ~Ran("summarize")
       /\ trace[Len(trace)].stage = "execute"
  /\ pc = "DONE" =>
       /\ TimesRan("execute") = 1 /\ TimesRan("summarize") = 1
       /\ trace[Len(trace) - 1].stage = "execute"
       /\ trace[Len(trace)].stage = "summarize"
       /\ trace[Len(trace)].arg = execute_query(trace[Len(trace) - 1].got)
       /\ out = <<Printed("Generated SQL:", trace[Len(trace) - 1].arg),
                  Printed("Query Results:", Str(trace[Len(trace)].arg)),
                  Printed("Summary:", summary)>>

C4_Witness ==
  /\ pc = "DONE" /\ session_closed
  /\ ~EntryOf("execute").got.ok
  /\ EntryOf("summarize").arg.val = <<"SQL execution error: ", "no such column">>

\* what C5 expects to be printed for the outcome g of the generation call
C5_Verbatim(g) == IF g.ok THEN g.val ELSE <<"SQL generation failed: ">> \o g.val

\* C5 as stated: when generate yields no SQL the run is in EXTRACT_FAILED with
\* no execute and no summarize, and the last text printed is the raw reply
\* verbatim (an empty reply included), or the failure message.
C5_FallbackVerbatim ==
  (Ran("generate") /\ ~Truthy(sql_query)) =>
    /\ pc = "EXTRACT_FAILED"
    /\ ~Ran("execute") /\ ~Ran("summarize")
    /\ LastPrinted = C5_Verbatim(EntryOf("generate").got)

\* C5 amended: as C5, the raw reply being printed verbatim when it is not
\* empty, and the text No response. in place of an empty reply.
C5_FallbackVerbatimUnlessEmpty ==
  (Ran("generate") /\ ~Truthy(sql_query)) =>
    /\ pc = "EXTRACT_FAILED"
    /\ ~Ran("execute") /\ ~Ran("summarize")
    /\ LastPrinted = IF EntryOf("generate").got = Returns(<<>>)
                     THEN <<"No response.">>
                     ELSE C5_Verbatim(EntryOf("generate").got)

C5_Witness ==
  /\ pc = "EXTRACT_FAILED" /\ session_closed
  /\ EntryOf("generate").got = Returns(<<"foo", " ", "Explanation">>)
  /\ LastPrinted = <<"foo", " ", "Explanation">>

\* C6: the verdict is true exactly when the reply is one VALID, in either
\* case, with nothing but whitespace around it.
C6_ValidIffExactlyValid ==
  pc = "validated" =>
    (verdict <=> \E i \in 1..Len(reply) :
                    /\ reply[i] \in {"VALID", "valid"}
                    /\ \A j \in 1..Len(reply) : j # i => reply[j] \in {" ", "\n"})

C6_Witness == pc = "validated" /\ verdict /\ reply = <<" ", "valid", "\n">>

\* what C7 expects of a reply whose first fenced block is generic
C7_Expected(s) ==
  IF BeginsWithKeyword(FirstBlock(s)) THEN Present(FirstBlock(s)) ELSE LineScan(s)

\* C7 as stated: when the first fenced block is generic, extract returns its
\* content if that begins with a keyword, also when a later fence is tagged
\* sql, and the result of line-scanning otherwise.  (The replies for which
\* extract returns an empty statement are left to C8.)
C7_FirstGenericBlock ==
  (pc = "extracted" /\ FirstBlockGeneric(response) /\ sql # Present(<<>>))
    => sql = C7_Expected(response)

\* C7 amended: the same for every reply in which no fence is tagged sql.
C7_FirstGenericBlockNoSqlTag ==
  (pc = "extracted" /\ FirstBlockGeneric(response)
     /\ SqlTagPos(response, {"sql"}) = {}) => sql = C7_Expected(response)

C7_Witness ==
  /\ pc = "extracted" /\ FirstBlockGeneric(response)
  /\ SqlTagPos(response, {"sql"}) = {}
  /\ Cardinality(FencePos(response)) >= 3
  /\ BeginsWithKeyword(FirstBlock(response))
  /\ sql = Present(FirstBlock(response))

\* C8: extract returns a non-empty statement or nothing, never an empty one.
C8_NeverEmptyStatement == (pc = "extracted" /\ IsPresent(sql)) => Get(sql) # <<>>

\* C9 as stated: extract applied to a statement it returned returns that
\* statement.  (An empty statement is left to C8.)
C9_Idempotent == (pc = "extracted" /\ Truthy(sql)) => resql = sql

\* a statement that begins with a keyword, holds no fence, and in which no
\* line is blank, begins or ends with whitespace, or (after the first) begins
\* with an explanatory marker
Bare(s) ==
  /\ BeginsWithKeyword(s)
  /\ FencePos(s) = {}
  /\ s[1] \notin {" ", "\n"} /\ s[Len(s)] \notin {" ", "\n"}
  /\ \A i \in 2..(Len(s) - 1) :
       s[i] = "\n" => /\ s[i - 1] \notin {" ", "\n"}
                      /\ s[i + 1] \notin {" ", "\n"} \cup Markers

\* C9 amended: extract applied to a statement it returned returns that
\* statement whenever the statement is bare.
C9_IdempotentOnBare ==
  (pc = "extracted" /\ IsPresent(sql) /\ Bare(Get(sql))) => resql = sql

C9_Witness ==
  /\ pc = "extracted" /\ IsPresent(sql) /\ Bare(Get(sql))
  /\ SqlTagPos(response, {"sql"}) # {}
  /\ \E i \in 1..Len(Get(sql)) : Get(sql)[i] = "\n"
  /\ resql = sql

\* one past the end of the tag that follows the fence at position i
TagEnd(s, i) ==
  Min({j \in (i + 2)..(Len(s) + 1) :
         j = Len(s) + 1 \/ s[j] \in {" ", "\n", Fence}})

\* the trimmed text between the end of the tag at fence i and the next fence
C10_Content(s, i) == Trimmed(SubSeq(s, TagEnd(s, i), NextFenceAfter(s, i) - 1))

\* C10 as stated: for a reply with a fence tagged sql, in either case and
\* with or without a suffix, extract returns the trimmed text between the end
\* of the first such tag and the next fence.  (A block that is empty once
\* trimmed is left to C8.)
C10_TaggedBlockAnyTag ==
  (pc = "extracted" /\ SqlTagPos(response, {"sql", "SQL"}) # {}) =>
    LET i == Min(SqlTagPos(response, {"sql", "SQL"}))
    IN C10_Content(response, i) # <<>> => sql = Present(C10_Content(response, i))

\* C10 amended: for a reply with a fence directly followed by lower-case sql,
\* extract returns the trimmed text between the first such sql and the next
\* fence (or the end of the reply), whatever surrounds it.
C10_TaggedBlockLowerCase ==
  (pc = "extracted" /\ SqlTagPos(response, {"sql"}) # {}) =>
    LET i == Min(SqlTagPos(response, {"sql"}))
    IN sql = Present(Trimmed(SubSeq(response, i + 2,
                                    NextFenceAfter(response, i) - 1)))

C10_Witness ==
  /\ pc = "extracted" /\ SqlTagPos(response, {"sql"}) # {}
  /\ Min(SqlTagPos(response, {"sql"})) > 1
  /\ NextFenceAfter(response, Min(SqlTagPos(response, {"sql"}))) <= Len(response)
  /\ sql = Present(<<"select">>)

====
